---- MODULE Spec2Model ----
(***************************************************************************)
(* A model of the in-memory IR system of search_engine.py and of its      *)
(* driver main.py.                                                         *)
(*                                                                         *)
(* Text is modelled at word granularity: a string is the sequence of its   *)
(* whitespace-separated words.  Python dictionaries are functions whose    *)
(* DOMAIN is the key set, Python lists are sequences, document ids are the *)
(* 0-based list positions of the source.  Scores are exact rationals       *)
(* scaled to integers (the source uses floats).                            *)
(***************************************************************************)
EXTENDS Integers, Sequences, FiniteSets, TLC

\* ------------------------------------------------------------- bounds
\* Files under the dataset directory of one build.
MaxDocs == 2
\* Words of a free-form query string.
MaxQLen == 3
\* Terms of a chained query  term (OP term)*.
MaxTerms == 3
\* Largest max_results a caller sets, besides the default.
MaxK == 1

\* Contents of the files a dataset directory may hold.
Texts ==
  { <<>>, <<"a">>, <<"B">>, <<"a", "!", "B">> }

\* Words a query string is made of.
QueryWords == {"a", "AND"}

\* ------------------------------------------------------------- helpers
Min(x, y) == IF x <= y THEN x ELSE y

RECURSIVE SeqsUpTo(_, _)
SeqsUpTo(S, n) ==
  IF n = 0 THEN { <<>> }
  ELSE LET shorter == SeqsUpTo(S, n - 1)
       IN  shorter \cup { Append(s, x) : s \in { t \in shorter : Len(t) = n - 1 }, x \in S }

RECURSIVE Fact(_)
Fact(n) == IF n <= 1 THEN 1 ELSE n * Fact(n - 1)

\* The orders in which iterating a Python set may yield its elements.
IterationOrders(S) ==
  { s \in [1..Cardinality(S) -> S] : \A i, j \in 1..Cardinality(S) : s[i] = s[j] => i = j }

\* Python slice l[:n] for n >= 0.
Take(l, n) == SubSeq(l, 1, Min(n, Len(l)))

\* dict.get(key, default): a lookup that never inserts.
DictGet(d, key, default) == IF key \in DOMAIN d THEN d[key] ELSE default

\* ------------------------------------------------------------- tokenizer
\* str.lower() on one word.
Lower(w) ==
  CASE w = "AND" -> "and"
    [] w = "OR"  -> "or"
    [] w = "A"   -> "a"
    [] w = "B"   -> "b"
    [] OTHER     -> w

\* compile('[a-z0-9]+').findall on one (lowercased) word: a word of
\* punctuation holds no run of letters or digits.
extract_words(w) == IF w \in {"!", "?"} THEN <<>> ELSE <<w>>

RECURSIVE tokenize(_)
tokenize(document) ==
  IF document = <<>> THEN <<>>
  ELSE extract_words(Lower(Head(document))) \o tokenize(Tail(document))

\* ------------------------------------------------------------- indexing
EmptyDict == [k \in {} |-> 0]

\* A posting set replaced instead of extended.
PostingOverwrite(index, t, f_id) ==
  IF t \in DOMAIN index
    THEN [index EXCEPT ![t] = {f_id}]
    ELSE index @@ (t :> {f_id})

\* inverted_index[t].add(f_id) on a defaultdict(set).
PostingAdd(index, t, f_id) ==
  IF t \in DOMAIN index
    THEN [index EXCEPT ![t] = @ \cup {f_id}]
    ELSE index @@ (t :> {f_id})

\* counts[t] += 1 on a defaultdict(int).
CountsIncr(counts, t) ==
  IF t \in DOMAIN counts
    THEN [counts EXCEPT ![t] = @ + 1]
    ELSE counts @@ (t :> 1)

\* The loop of index_document over the tokens of one file.
RECURSIVE IndexTokens(_, _, _, _)
IndexTokens(tokens, f_id, index, counts) ==
  IF tokens = <<>> THEN [index |-> index, counts |-> counts]
  ELSE IndexTokens(Tail(tokens), f_id,
                   PostingAdd(index, Head(tokens), f_id),
                   CountsIncr(counts, Head(tokens)))

\* index_document: the document record and the inverted index it leaves.
index_document(text, f_id, index) ==
  LET tokens == tokenize(text)
      r      == IndexTokens(tokens, f_id, index, EmptyDict)
  IN  [doc   |-> [filename |-> f_id, counts |-> r.counts, length |-> Len(tokens)],
       index |-> r.index]

\* The list comprehension of build_index: files in enumeration order, ids
\* from 0, every file indexed into the one global inverted index.
RECURSIVE IndexFiles(_, _, _, _)
IndexFiles(files, f_id, docs, index) ==
  IF files = <<>> THEN [dataset |-> docs, index |-> index]
  ELSE LET r == index_document(Head(files), f_id, index)
       IN  IndexFiles(Tail(files), f_id + 1, Append(docs, r.doc), r.index)

\* build_index: dataset is rebound to the new list; inverted_index is the
\* module-level dictionary the previous builds already wrote to.
build_index(files, index) == IndexFiles(files, 0, <<>>, index)

\* ------------------------------------------------------------- boolean
\* The state of a defaultdict after d[key]: a missing key is inserted.
DictAfterSubscript(d, key, default) ==
  IF key \in DOMAIN d THEN d ELSE d @@ (key :> default)

\* The state of a dictionary after d.get(key, default): unchanged, also
\* when d is a defaultdict and key is missing.
DictAfterGet(d, key, default) == d

RECURSIVE DictAfterGets(_, _, _)
DictAfterGets(d, keys, default) ==
  IF keys = <<>> THEN d
  ELSE DictAfterGets(DictAfterGet(d, Head(keys), default), Tail(keys), default)

\* list.reverse()
RECURSIVE Reverse(_)
Reverse(l) == IF l = <<>> THEN <<>> ELSE Append(Reverse(Tail(l)), Head(l))

\* Both operators taken for a union.
set_op_union_only(s, x, y) ==
  IF x = "and" \/ x = "or" THEN s \cup y ELSE s

\* The lambda of execute_chained_booleans: the set s after the operation.
\* An x that is neither "and" nor "or" leaves s as it is.
set_op(s, x, y) ==
  IF x = "and" THEN s \cap y
  ELSE IF x = "or" THEN s \cup y
  ELSE s

\* ops is consumed from its end, two entries per call: the operator is
\* popped first, then the term.
RECURSIVE execute_chained_booleans(_, _, _)
execute_chained_booleans(result, ops, index) ==
  IF ops = <<>> THEN result
  ELSE LET x    == ops[Len(ops)]
           term == ops[Len(ops) - 1]
       IN  execute_chained_booleans(set_op(result, x, DictGet(index, term, {})),
                                    SubSeq(ops, 1, Len(ops) - 2), index)

\* The operator/term list boolean_query builds.
BooleanOps(querystring) == Reverse(<<"or">> \o tokenize(querystring))

\* The format check of boolean_query.
FormatAccepted(ops) == Len(ops) % 2 = 0

\* boolean_query up to the conversion of the result set to a list.
boolean_query(querystring, index) ==
  LET ops == BooleanOps(querystring)
  IN  IF ~FormatAccepted(ops)
        THEN [outcome |-> "None", result_set |-> {}]
        ELSE [outcome |-> "list",
              result_set |-> execute_chained_booleans({}, ops, index)]

\* The terms execute_chained_booleans looks up in the inverted index.
RECURSIVE LookedUpTerms(_)
LookedUpTerms(ops) ==
  IF Len(ops) < 2 THEN <<>>
  ELSE <<ops[Len(ops) - 1]>> \o LookedUpTerms(SubSeq(ops, 1, Len(ops) - 2))

\* ------------------------------------------------------------- tf-idf
\* Longest file, in tokens.
MaxLength == CHOOSE n \in 0..16 :
  /\ \A t \in Texts : Len(tokenize(t)) <= n
  /\ \E t \in Texts : Len(tokenize(t)) = n

\* Scores are kept exact: tf is scaled by TfScale, idf by IdfScale, and the
\* factor log(len(dataset)), shared by all scores of one query, is kept as
\* its sign only.
TfScale == Fact(MaxLength)
IdfScale == Fact(MaxDocs + 1)

\* dataset[docid]
DocAt(ds, docid) == ds[docid + 1]

\* tf: only evaluated for a docid in range with length > 0.
tf(word, docid, ds) ==
  (DictGet(DocAt(ds, docid).counts, word, 0) * TfScale) \div DocAt(ds, docid).length

\* idf: math.log(len(dataset)) is 0 for one document, positive for more.
idf(word, ds, index) ==
  (IF Len(ds) = 1 THEN 0 ELSE 1) * (IdfScale \div (1 + Cardinality(DictGet(index, word, {}))))

tfidf(word, docid, ds, index) == tf(word, docid, ds) * idf(word, ds, index)

RECURSIVE Score(_, _, _, _)
Score(tokens, docid, ds, index) ==
  IF tokens = <<>> THEN 0
  ELSE tfidf(Head(tokens), docid, ds, index) + Score(Tail(tokens), docid, ds, index)

\* (score, id) tuples compare lexicographically.
TupleLess(p, q) == p[1] < q[1] \/ (p[1] = q[1] /\ p[2] < q[2])

\* heappush: the heap is kept as an ascending list, so that heap[0] is its
\* minimum as heapq guarantees.
heappush(heap, item) ==
  LET n == Cardinality({ i \in 1..Len(heap) : TupleLess(heap[i], item) })
  IN  SubSeq(heap, 1, n) \o <<item>> \o SubSeq(heap, n + 1, Len(heap))

\* score > result_set[0] compares a float with a tuple.  CPython 2 orders a
\* number before any object of another type, so the test is never true.
ScoreGreaterThanEntry(score, entry) == FALSE

\* The bound tested one too late.
HeapHasRoomOffByOne(result_set, max_results) == Len(result_set) <= max_results

\* len(result_set) < max_results
HeapHasRoom(result_set, max_results) == Len(result_set) < max_results

\* The scan of tfidf_query over the candidates in iteration order.
RECURSIVE RankCandidates(_, _, _, _, _, _)
RankCandidates(order, tokens, max_results, result_set, ds, index) ==
  IF order = <<>> THEN [outcome |-> "list", result_set |-> result_set]
  ELSE LET c == Head(order)
       IN  IF c >= Len(ds)
             THEN [outcome |-> "IndexError", result_set |-> <<>>]
           ELSE IF DocAt(ds, c).length = 0
             THEN [outcome |-> "ZeroDivisionError", result_set |-> <<>>]
           ELSE LET score == Score(tokens, c, ds, index)
                IN  IF HeapHasRoom(result_set, max_results)
                      THEN RankCandidates(Tail(order), tokens, max_results,
                                          heappush(result_set, <<score, c>>), ds, index)
                    ELSE IF ScoreGreaterThanEntry(score, result_set[1])
                      \* heapreplace(resultset, ...): resultset is not defined
                      THEN [outcome |-> "NameError", result_set |-> <<>>]
                    ELSE RankCandidates(Tail(order), tokens, max_results,
                                        result_set, ds, index)

\* reduce(set.union, [inverted_index.get(w, set()) for w in tokens]) for a
\* non-empty list of tokens.
RECURSIVE UnionOfPostings(_, _)
UnionOfPostings(tokens, index) ==
  IF tokens = <<>> THEN {}
  ELSE DictGet(index, Head(tokens), {}) \cup UnionOfPostings(Tail(tokens), index)

\* tfidf_query, given the order in which the candidate set is iterated.
\* reduce() of an empty list without an initial value raises TypeError.
tfidf_query(querystring, max_results, order, ds, index) ==
  LET tokens == tokenize(querystring)
  IN  IF tokens = <<>>
        THEN [outcome |-> "TypeError", result |-> <<>>]
        ELSE LET r == RankCandidates(order, tokens, max_results, <<>>, ds, index)
                 sorted == Reverse(r.result_set)
             IN  [outcome |-> r.outcome,
                  result  |-> [i \in 1..Len(sorted) |-> sorted[i][2]]]

\* The candidates tfidf_query scans before it returns or raises.
RECURSIVE Scored(_, _)
Scored(order, ds) ==
  IF order = <<>> THEN {}
  ELSE IF Head(order) >= Len(ds) \/ DocAt(ds, Head(order)).length = 0 THEN {}
  ELSE {Head(order)} \cup Scored(Tail(order), ds)

\* ------------------------------------------------------------- state
VARIABLES
  dataset,         \* search_engine.dataset: the list of document records
  inverted_index,  \* search_engine.inverted_index: term -> set of ids
  pc,              \* where the caller is: "start", "ready", "returned", "crashed"
  call,            \* the call into search_engine in progress or just made
  outcome,         \* how the query ended: "list", "None" or the exception it raised
  result,          \* the list the query returned
  strategy,        \* run_cmd's local strategy
  max_results,     \* run_cmd's local max_results
  raised           \* the exception that ended the caller, "" while it runs

vars == <<dataset, inverted_index, pc, call, outcome, result, strategy, max_results, raised>>

\* Default of run_cmd's max_results parameter.
DefaultMaxResults == 10

Corpora == SeqsUpTo(Texts, MaxDocs)

\* The max_results a caller passes: the default, or one it sets (>= 1).
MaxResultsValues == (1..MaxK) \cup {DefaultMaxResults}

\* Chained queries  term (OP term)*  of n terms.
RECURSIVE ChainedQueries(_)
ChainedQueries(n) ==
  IF n = 1 THEN { <<t>> : t \in {"a", "b"} }
  ELSE { q \o <<op, t>> : q \in ChainedQueries(n - 1), op \in {"AND", "or"}, t \in {"a", "b"} }

QueryStrings ==
  SeqsUpTo(QueryWords, MaxQLen) \cup UNION { ChainedQueries(n) : n \in 1..MaxTerms }

NoCall == [op |-> "none", files |-> <<>>, querystring |-> <<>>, max_results |-> 0, strategy |-> ""]

NoIndex == [k \in {} |-> {}]

\* The module after import: both globals empty.
Init ==
  /\ dataset = <<>>
  /\ inverted_index = NoIndex
  /\ pc = "ready"
  /\ call = NoCall
  /\ outcome = "none"
  /\ result = <<>>
  /\ strategy = "boolean"
  /\ max_results = DefaultMaxResults
  /\ raised = ""

\* ------------------------------------------------------------- operations
\* search_engine.build_index(root_path) over a directory holding `files`.
BuildIndex(files) ==
  /\ pc = "ready"
  /\ \E r \in { build_index(files, inverted_index) } :
       /\ dataset' = r.dataset
       /\ inverted_index' = r.index
  /\ call' = [NoCall EXCEPT !.op = "build_index", !.files = files]
  /\ outcome' = "none"
  /\ result' = <<>>
  /\ UNCHANGED <<pc, strategy, max_results, raised>>

\* The documents whose counts a tf-idf scan reads, each with .get of every
\* query token.
DatasetAfterScan(ds, scanned, tokens) ==
  [i \in DOMAIN ds |->
     IF (i - 1) \in scanned
       THEN [ds[i] EXCEPT !.counts = DictAfterGets(@, tokens, 0)]
       ELSE ds[i]]

\* query(querystring, max_results, "boolean")
BooleanQuery(querystring, k) ==
  /\ pc = "ready"
  /\ \E r \in { boolean_query(querystring, inverted_index) } :
       /\ outcome' = r.outcome
       \* list(result_set)[:max_results]
       /\ result' \in { Take(l, k) : l \in IterationOrders(r.result_set) }
       /\ inverted_index' =
            IF r.outcome = "None" THEN inverted_index
            ELSE DictAfterGets(inverted_index, LookedUpTerms(BooleanOps(querystring)), {})
  /\ call' = [NoCall EXCEPT !.op = "query", !.querystring = querystring,
                            !.max_results = k, !.strategy = "boolean"]
  /\ pc' = "returned"
  /\ UNCHANGED <<dataset, strategy, max_results, raised>>

\* query(querystring, max_results, "tfidf")
TfidfQuery(querystring, k) ==
  /\ pc = "ready"
  /\ \E tokens \in { tokenize(querystring) } :
       \E r \in { [ret     |-> tfidf_query(querystring, k, order, dataset, inverted_index),
                    scanned |-> Scored(order, dataset)] :
                   order \in IterationOrders(UnionOfPostings(tokens, inverted_index)) } :
         /\ outcome' = r.ret.outcome
         /\ result' = r.ret.result
         /\ pc' = IF r.ret.outcome = "list" THEN "returned" ELSE "crashed"
         /\ raised' = IF r.ret.outcome = "list" THEN "" ELSE r.ret.outcome
         /\ inverted_index' = DictAfterGets(inverted_index, tokens, {})
         /\ dataset' = DatasetAfterScan(dataset, r.scanned, tokens)
  /\ call' = [NoCall EXCEPT !.op = "query", !.querystring = querystring,
                            !.max_results = k, !.strategy = "tfidf"]
  /\ UNCHANGED <<strategy, max_results>>

\* main.print_results(docids) on what the query returned: iterating None
\* raises TypeError, an id outside dataset raises IndexError.
print_results(docids, returned, ds) ==
  IF returned = "None" THEN "TypeError"
  ELSE IF \E i \in 1..Len(docids) : docids[i] >= Len(ds) THEN "IndexError"
  ELSE ""

\* The caller prints the result; once printed, the call is over.
PrintResults ==
  /\ pc = "returned"
  /\ raised' = print_results(result, outcome, dataset)
  /\ IF raised' = ""
       THEN pc' = "ready" /\ call' = NoCall /\ outcome' = "none" /\ result' = <<>>
       ELSE pc' = "crashed" /\ UNCHANGED <<call, outcome, result>>
  /\ UNCHANGED <<dataset, inverted_index, strategy, max_results>>

\* The library and a caller that builds, queries and prints in any order.
Next ==
  \/ \E files \in Corpora : BuildIndex(files)
  \/ \E q \in QueryStrings, k \in MaxResultsValues : BooleanQuery(q, k)
  \/ \E q \in QueryStrings, k \in MaxResultsValues : TfidfQuery(q, k)
  \/ PrintResults

Spec == Init /\ [][Next]_vars

\* The indexing pipeline alone: any sequence of builds.
BuildNext == \E files \in Corpora : BuildIndex(files)

BuildSpec == Init /\ [][BuildNext]_vars

\* ------------------------------------------------------------- main.py
\* Decimal numerals, for int(args[1]).
Numerals == <<"0", "1", "2", "3", "4", "5", "6", "7", "8", "9">>

IsNumeral(w) == \E i \in 1..Len(Numerals) : Numerals[i] = w

IntOf(w) == (CHOOSE i \in 1..Len(Numerals) : Numerals[i] = w) - 1

\* Lines typed at the prompt, as the words line.split() yields.
CommandLines ==
  { <<"/set_strategy">>, <<"/set_max_results">>, <<"/show_options">>, <<>> }
    \cup { <<"/set_strategy", s>> : s \in {"boolean", "tfidf", "fuzzy"} }
    \cup { <<"/set_max_results", n>> : n \in {"x"} \cup { Numerals[i + 1] : i \in 0..MaxK } }

QueryLines == (QueryStrings \ { <<>> }) \cup { <<"!">> }

MainInit ==
  /\ dataset = <<>>
  /\ inverted_index = NoIndex
  /\ pc = "start"
  /\ call = NoCall
  /\ outcome = "none"
  /\ result = <<>>
  /\ strategy = "boolean"
  /\ max_results = DefaultMaxResults
  /\ raised = ""

\* SE.build_index(root_path) of the __main__ block, before run_cmd().
MainBuildIndex(files) ==
  /\ pc = "start"
  /\ \E r \in { build_index(files, inverted_index) } :
       /\ dataset' = r.dataset
       /\ inverted_index' = r.index
  /\ call' = [NoCall EXCEPT !.op = "build_index", !.files = files]
  /\ pc' = "ready"
  /\ UNCHANGED <<outcome, result, strategy, max_results, raised>>

\* run_cmd: a line that is no query.  Every branch prints at most a message
\* and goes back to the prompt.
RunCommand(args) ==
  /\ pc = "ready"
  /\ args \in CommandLines
  /\ IF Len(args) = 0 THEN UNCHANGED <<strategy, max_results>>
     ELSE IF args[1] = "/set_strategy"
       THEN /\ strategy' = IF Len(args) > 1 /\ args[2] \in {"tfidf", "boolean"}
                             THEN args[2] ELSE strategy
            /\ UNCHANGED max_results
     ELSE IF args[1] = "/set_max_results"
       THEN /\ max_results' = IF Len(args) > 1 /\ IsNumeral(args[2]) /\ IntOf(args[2]) >= 1
                                THEN IntOf(args[2]) ELSE max_results
            /\ UNCHANGED strategy
     ELSE UNCHANGED <<strategy, max_results>>
  /\ UNCHANGED <<dataset, inverted_index, pc, call, outcome, result, raised>>

\* run_cmd: any other line is a query, SE.query(querystring, max_results,
\* strategy); print_results follows as PrintResults.
RunQuery(querystring) ==
  \/ strategy = "boolean" /\ BooleanQuery(querystring, max_results)
  \/ strategy = "tfidf" /\ TfidfQuery(querystring, max_results)

MainNext ==
  \/ \E files \in Corpora : MainBuildIndex(files)
  \/ \E args \in CommandLines : RunCommand(args)
  \/ \E querystring \in QueryLines : RunQuery(querystring)
  \/ PrintResults

MainSpec == MainInit /\ [][MainNext]_vars

\* ------------------------------------------------------------- properties
IsQuery(s) == call.op = "query" /\ call.strategy = s

Tokens == tokenize(call.querystring)

Ids == 0..(Len(dataset) - 1)

\* The posting set of a term, empty for a term that is no key.
Posting(t) == IF t \in DOMAIN inverted_index THEN inverted_index[t] ELSE {}

\* The terms occurring in the documents of a dataset.
TermsIn(ds) == UNION { DOMAIN ds[i].counts : i \in DOMAIN ds }

\* The documents of the dataset that contain term t.
Containing(t) == { d \in Ids : t \in DOMAIN dataset[d + 1].counts }

\* The index holds nothing but the terms and ids of the documents of ds.
IndexReflects(ds, index) ==
  \A t \in DOMAIN index :
    /\ t \in TermsIn(ds)
    /\ \A id \in index[t] : id < Len(ds) /\ t \in DOMAIN ds[id + 1].counts

\* C1: when the index holds just the first corpus and build_index is run
\* over a second corpus that shares no term with it, every key of
\* inverted_index is a term of a document of the second corpus and every
\* id of every posting set is a document of the second corpus holding it.
C1_NonMixing ==
  [][ ( /\ pc = "ready"
        /\ call'.op = "build_index"
        /\ IndexReflects(dataset, inverted_index)
        /\ TermsIn(dataset) \cap TermsIn(dataset') = {} )
      => IndexReflects(dataset', inverted_index') ]_vars

\* The number of occurrences of t in a token list.
Occurrences(tokens, t) == Cardinality({ j \in 1..Len(tokens) : tokens[j] = t })

\* C2: after build_index over N files the dataset has exactly N entries,
\* entry i (id i-1) describes the i-th file of the enumeration, and the id
\* of every document is in the posting set of every term it counts.
C2_IndexConsistent ==
  call.op = "build_index" =>
    /\ Len(dataset) = Len(call.files)
    /\ \A i \in 1..Len(dataset) :
         LET toks == tokenize(call.files[i])
         IN  /\ dataset[i].length = Len(toks)
             /\ DOMAIN dataset[i].counts = { toks[j] : j \in 1..Len(toks) }
             /\ \A t \in DOMAIN dataset[i].counts :
                  /\ dataset[i].counts[t] = Occurrences(toks, t)
                  /\ t \in DOMAIN inverted_index
                  /\ (i - 1) \in inverted_index[t]

\* C2 witness: a rebuild over two different documents, the index still
\* holding a posting of an earlier build.
C2_Witness ==
  /\ call.op = "build_index"
  /\ Len(dataset) = 2
  /\ dataset[1].counts # dataset[2].counts
  /\ dataset[2].length = 2
  /\ ~IndexReflects(dataset, inverted_index)

\* C3: every id a query returns is an index into the dataset of the most
\* recent build.
C3_ReturnedIdsValid ==
  outcome = "list" => \A i \in 1..Len(result) : result[i] \in Ids

Operators == {"and", "or"}

\* term (OP term)*
StrictAlternation(tokens) ==
  /\ Len(tokens) % 2 = 1
  /\ \A i \in 1..Len(tokens) :
       IF i % 2 = 1 THEN tokens[i] \notin Operators ELSE tokens[i] \in Operators

\* C4: a boolean query whose tokens are not the strict alternation
\* term (OP term)* is rejected: boolean_query returns no result.
C4_MalformedRejected ==
  (IsQuery("boolean") /\ ~StrictAlternation(Tokens)) => outcome = "None"

\* The left-to-right fold of a chained query from the empty set.
RECURSIVE FoldLeft(_, _, _)
FoldLeft(tokens, i, acc) ==
  IF i > Len(tokens) THEN acc
  ELSE LET op == IF i = 1 THEN "or" ELSE tokens[i - 1]
           next == IF op = "and" THEN acc \cap Posting(tokens[i])
                   ELSE acc \cup Posting(tokens[i])
       IN  FoldLeft(tokens, i + 2, next)

\* C5: a well-formed boolean query returns a duplicate-free list of
\* min(max_results, size) ids of the set folded left to right with flat
\* precedence; over a freshly built index "a AND b" returns documents
\* containing both terms and "a OR b" ids of the union of both postings.
C5_BooleanFold ==
  (IsQuery("boolean") /\ StrictAlternation(Tokens)) =>
    LET S == FoldLeft(Tokens, 1, {})
    IN  /\ outcome = "list"
        /\ \A i \in 1..Len(result) : result[i] \in S
        /\ \A i, j \in 1..Len(result) : result[i] = result[j] => i = j
        /\ Len(result) = Min(call.max_results, Cardinality(S))
        /\ Tokens = <<"a", "and", "b">> => S = Containing("a") \cap Containing("b")
        /\ Tokens = <<"a", "or", "b">> => S = Posting("a") \cup Posting("b")

\* C5 witness: "a or a AND b", where flat precedence and AND-before-OR
\* differ, answered with the one document holding both terms.
C5_Witness ==
  /\ IsQuery("boolean")
  /\ Tokens = <<"a", "or", "a", "and", "b">>
  /\ Posting("a") = {0, 1}
  /\ Posting("b") = {1}
  /\ outcome = "list"
  /\ result = <<1>>

\* tf(t, d) <= tf(t, e), compared exactly; a document without tokens has tf 0.
TfLeq(t, d, e) ==
  LET cd == DictGet(dataset[d + 1].counts, t, 0)
      ce == DictGet(dataset[e + 1].counts, t, 0)
      ld == dataset[d + 1].length
      le == dataset[e + 1].length
  IN  IF cd = 0 THEN TRUE
      ELSE IF ce = 0 THEN FALSE
      ELSE cd * le <= ce * ld

\* C6: the first id a single-term tf-idf query returns is a document
\* maximizing tf(term, d) * idf(term) over the indexed documents (idf(term)
\* is the same non-negative factor for all of them).
C6_TopOneMaximizes ==
  (IsQuery("tfidf") /\ outcome = "list" /\ Len(Tokens) = 1 /\ Len(result) >= 1) =>
    /\ result[1] \in Ids
    /\ \A d \in Ids : Len(dataset) = 1 \/ TfLeq(Tokens[1], d, result[1])

\* C7: a tf-idf query of at least one term returns at most max_results
\* ids, each in the posting set of one of the query terms.
C7_BoundedFromPostings ==
  (IsQuery("tfidf") /\ Len(Tokens) >= 1) =>
    /\ outcome = "list"
    /\ Len(result) <= call.max_results
    /\ \A i \in 1..Len(result) : \E j \in 1..Len(Tokens) : result[i] \in Posting(Tokens[j])

\* C7 witness: more candidates than max_results, one id returned.
C7_Witness ==
  /\ IsQuery("tfidf")
  /\ Len(Tokens) >= 1
  /\ call.max_results = 1
  /\ Cardinality(UNION { Posting(Tokens[j]) : j \in 1..Len(Tokens) }) = 2
  /\ outcome = "list"
  /\ Len(result) = 1

\* C8: a tf-idf query that tokenizes to no terms returns the empty list
\* and raises nothing.
C8_EmptyQueryEmptyResult ==
  (IsQuery("tfidf") /\ Tokens = <<>>) =>
    outcome = "list" /\ result = <<>> /\ raised = ""

\* C9: after a boolean query is rejected for its format the shell has not
\* crashed: no exception ends run_cmd.
C9_FormatErrorNotFatal ==
  (IsQuery("boolean") /\ outcome = "None") => (pc # "crashed" /\ raised = "")

\* C10: a query, answered, rejected or ended by an exception, leaves
\* dataset and inverted_index as they were.
C10_QueriesReadOnly ==
  [][ (pc = "ready" /\ call'.op = "query")
      => (dataset' = dataset /\ inverted_index' = inverted_index) ]_vars

\* C10 witness: a query naming a term that is no key of the index has been
\* answered from a non-empty index.
C10_Witness ==
  /\ call.op = "query"
  /\ outcome = "list"
  /\ Len(dataset) > 0
  /\ DOMAIN inverted_index # {}
  /\ \E j \in 1..Len(Tokens) : Tokens[j] = "b" /\ "b" \notin DOMAIN inverted_index

====
